---- MODULE Spec2Model ----
(***************************************************************************)
(* Motion-detection and clip-assembly pipeline of Birdieo                  *)
(* (src/camera_processor.py, src/enhanced_live_api.py).                    *)
(*                                                                         *)
(* ShotDetector  : hysteresis counter + cooldown (detect_motion).          *)
(* FrameBuffer   : two bounded deques, frames and timestamps.              *)
(* CameraProcessor / manual_trigger_clip : clip creation per active round. *)
(* _snapshot_reader_loop : the snapshot reader thread and its backoff.     *)
(* process_stream : the ingestion thread, from start-up to shutdown.       *)
(*                                                                         *)
(* Time is an integer number of clock units.  The detector and the         *)
(* processor are unit-agnostic (the unit is the second there); the         *)
(* 300-frame scenario uses milliseconds.                                   *)
(***************************************************************************)
EXTENDS Integers, Sequences, FiniteSets, TLC

VARIABLES
    \* ---- ShotDetector (camera_processor.py 25-33)
    motion_counter,     \* self.motion_counter
    last_motion_time,   \* self.last_motion_time
    \* ---- the wall clock, time.time()
    clock,
    \* ---- history of the detector's calls
    detect_result,      \* value returned by the last detect_motion call
    fire_times,         \* clock values of the calls that returned True
    trace,              \* <<total_area, returned>> per call (scenario runs)
    \* ---- FrameBuffer (camera_processor.py 67-70)
    max_size,           \* deque maxlen
    buffer,             \* self.buffer
    timestamps,         \* self.timestamps
    \* ---- history of the buffer's calls
    added,              \* every <<frame, ts>> ever passed to add_frame
    clip_frames,        \* value returned by the last get_clip_frames call
    last_op,            \* the last FrameBuffer call and its arguments
    \* ---- the processes around CameraProcessor
    camera_processor,   \* the global instance: "up" or "none"
    rounds,             \* db.rounds: round id -> status
    latest_frame,       \* _latest_frame: <<>> is None, <<f>> holds frame f
    latest_ts,          \* _latest_ts
    clips,              \* db.clips, in insertion order
    video_files,        \* clip ids whose <id>.mp4 is on disk
    poster_files,       \* clip ids whose <id>_poster.jpg is on disk
    next_uuid,          \* the uuid4 values handed out so far
    tasks,              \* the /trigger-clip requests, each a coroutine
    \* ---- history of the clip store
    clip_event,         \* clip_event[i]: the request that wrote clips[i]
    \* ---- the snapshot reader thread (enhanced_live_api.py 22-61)
    reader_running,     \* _reader_running
    reader_pc,          \* "loop" while the thread runs, then "done"
    backoff,            \* the loop's local backoff, in seconds
    \* ---- history of the snapshot reader
    fetches,            \* iterations of the loop so far
    fetch_result,       \* how the last iteration's fetch ended
    failure_sleeps,     \* the sleeps of the failures since the last success
    \* ---- CameraProcessor and its ingestion thread (camera_processor.py)
    is_running,         \* self.is_running
    processing_thread,  \* self.processing_thread: the thread last started
    stream_pc,          \* per thread, where process_stream is: "unstarted",
                        \* "open", "loop" (at the while), "body", "done"
    exit_cause,         \* per thread, why process_stream returned
    stop_pc,            \* "joining" or "shutdown" while a stop() call waits
                        \* in its join, else "idle"
    \* ---- history of the ingestion loop
    stop_mark,          \* the frames added and the reads when stop() began
    start_calls,        \* start() calls so far
    reads,              \* the ret values of the cap.read() calls so far
    fire_log,           \* per fire in process_stream: time, active rounds
    \* ---- FrameBuffer.lock and the threads calling into the buffer
    lock_owner,         \* the caller holding FrameBuffer.lock, 0 when free
    caller_pc,          \* per caller: "idle", or how far its add_frame is
                        \* inside the with block, and the call's arguments
    \* ---- the request handlers that read the latest frame
    copies,             \* the arrays allocated by _latest_frame.copy() so far
    \* ---- history of those handlers
    requests            \* one record per call of /frame, /analyze or
                        \* iteration of the /stream.mjpg generator

detVars == <<motion_counter, last_motion_time, clock, detect_result,
             fire_times, trace>>
bufVars == <<max_size, buffer, timestamps, added, clip_frames, last_op,
             lock_owner, caller_pc>>
clipVars == <<camera_processor, rounds, latest_frame, latest_ts, clips,
              video_files, poster_files, next_uuid, tasks, clip_event>>
readerVars == <<reader_running, reader_pc, backoff, fetches, fetch_result,
                failure_sleeps>>
streamVars == <<is_running, processing_thread, stream_pc, exit_cause,
                stop_pc, stop_mark, start_calls, reads, fire_log>>
serveVars == <<requests, copies>>
vars == <<detVars, bufVars, clipVars, readerVars, streamVars, serveVars>>

----------------------------------------------------------------------------
(* Program constants *)

motion_threshold == 5000
consecutive_frames == 3
cooldown_period == 10
default_max_size == 300
clip_duration == 10
frame_sleep_ms == 33
manual_frame_count == 300
video_fps == 30
hole_number == 1
backoff_initial == 1
backoff_cap == 20
backoff_factor == 2
read_retry_sleep == 1

(* Bounds of the model *)

StartTime == 100        \* time.time() when the detector is constructed
Horizon == 30           \* the clock runs from StartTime to StartTime+Horizon
MaxCalls == 6           \* detect_motion calls recorded in a scenario run
MaxCap == 2             \* FrameBuffer capacities 1..MaxCap
MaxAdds == 4            \* add_frame calls in a buffer run
MaxTs == 3              \* timestamps and trigger times 0..MaxTs
MaxDur == 3             \* clip durations 0..MaxDur
MaxRounds == 2          \* rounds 1..MaxRounds in db.rounds
MaxTriggers == 1        \* /trigger-clip requests
MaxPublish == 1         \* frames published by the snapshot reader
MaxTicks == 2           \* clock ticks while clips are being created
MaxFetches == 8         \* iterations of the snapshot reader loop
MaxReads == 4           \* cap.read() calls of the ingestion loop
MaxThreads == 2         \* ingestion threads 1..MaxThreads of one processor
MaxStarts == 3          \* start() calls on one processor
MaxRequests == 2        \* calls of the handlers that read the latest frame
MaxWindow == 2      \* frames in a window handed to the clip path directly
MaxFires == 2       \* windows handed to the fire branch directly
MaxSustained == 9       \* detect_motion calls of a run of sustained motion
MaxStreamClock == 13    \* clock range of a detection run with stalled reads
MaxCallers == 2         \* threads calling into one FrameBuffer

Areas == {100, motion_threshold, 6000}
ClockSteps == {0, 1, 5, cooldown_period + 1}
ScenarioSteps == {0, cooldown_period + 1}
SustainedSteps == {1, 4, cooldown_period + 1}
StallSteps == {0, 1, clip_duration \div 2 + 1}

Max(a, b) == IF a >= b THEN a ELSE b
Min(a, b) == IF a <= b THEN a ELSE b

----------------------------------------------------------------------------
(* ShotDetector *)

AboveThreshold_Inclusive(total_area) == total_area >= motion_threshold

\* line 52: total_area > self.motion_threshold
AboveThreshold(total_area) == total_area > motion_threshold

CooldownElapsed_NoCheck(current_time, last) == TRUE

CooldownElapsed_Inclusive(current_time, last) ==
    current_time - last >= cooldown_period

\* line 53: current_time - self.last_motion_time > self.cooldown_period
CooldownElapsed(current_time, last) == current_time - last > cooldown_period

ReachedRequired_Strict(counter) == counter > consecutive_frames

\* line 55: self.motion_counter >= self.consecutive_frames
ReachedRequired(counter) == counter >= consecutive_frames

Decay_Reset(counter) == 0

\* line 60: max(0, self.motion_counter - 1)
Decay(counter) == Max(0, counter - 1)

DetectStep_StampEveryCount(counter, last, total_area, current_time) ==
    IF AboveThreshold(total_area)
    THEN IF CooldownElapsed(current_time, last)
         THEN IF ReachedRequired(counter + 1)
              THEN [counter |-> 0, last |-> current_time, fired |-> TRUE]
              ELSE [counter |-> counter + 1, last |-> current_time,
                    fired |-> FALSE]
         ELSE [counter |-> counter, last |-> last, fired |-> FALSE]
    ELSE [counter |-> Decay(counter), last |-> last, fired |-> FALSE]

\* lines 50-62: the new counter, the new last_motion_time and the return value
DetectStep(counter, last, total_area, current_time) ==
    IF AboveThreshold(total_area)
    THEN IF CooldownElapsed(current_time, last)
         THEN IF ReachedRequired(counter + 1)
              THEN [counter |-> 0, last |-> current_time, fired |-> TRUE]
              ELSE [counter |-> counter + 1, last |-> last, fired |-> FALSE]
         ELSE [counter |-> counter, last |-> last, fired |-> FALSE]
    ELSE [counter |-> Decay(counter), last |-> last, fired |-> FALSE]

\* One detect_motion call on a frame of motion area total_area, dt clock
\* units after the previous call.
detect_motion(total_area, dt) ==
    LET now == clock + dt
        r == DetectStep(motion_counter, last_motion_time, total_area, now)
    IN  /\ now <= StartTime + Horizon
        /\ clock' = now
        /\ motion_counter' = r.counter
        /\ last_motion_time' = r.last
        /\ detect_result' = r.fired
        /\ fire_times' = IF r.fired THEN Append(fire_times, now) ELSE fire_times

\* ShotDetector.__init__, lines 25-33
DetectorInit ==
    /\ motion_counter = 0
    /\ last_motion_time = 0
    /\ clock = StartTime
    /\ detect_result = FALSE
    /\ fire_times = <<>>
    /\ trace = <<>>

----------------------------------------------------------------------------
(* FrameBuffer *)

\* deque(maxlen=n).append: the oldest entry is dropped at capacity
DequeAppend_NoEvict(dq, x, n) == IF Len(dq) >= n THEN dq ELSE Append(dq, x)

DequeAppend(dq, x, n) ==
    IF Len(dq) >= n THEN Append(Tail(dq), x) ELSE Append(dq, x)

InWindow_StrictEnd(ts, trigger_time, duration) ==
    /\ 2 * trigger_time - duration <= 2 * ts
    /\ 2 * ts < 2 * trigger_time + duration

InWindow_NoStart(ts, trigger_time, duration) ==
    2 * ts <= 2 * trigger_time + duration

InWindow_Backward(ts, trigger_time, duration) ==
    2 * trigger_time - duration <= 2 * ts /\ ts <= trigger_time

\* lines 85-90: start_time <= ts <= end_time with start/end = trigger -/+ d/2
\* (the halves are kept exact by comparing the doubled values)
InWindow(ts, trigger_time, duration) ==
    /\ 2 * trigger_time - duration <= 2 * ts
    /\ 2 * ts <= 2 * trigger_time + duration

\* the indices i of enumerate(self.timestamps) that pass the test of line 90,
\* in the order the loop visits them
Selected(tss, trigger_time, duration) ==
    SelectSeq([i \in 1..Len(tss) |-> i],
              LAMBDA i : InWindow(tss[i], trigger_time, duration))

CollectFrom_Reversed(buf, tss, trigger_time, duration) ==
    LET sel == Selected(tss, trigger_time, duration)
    IN  [k \in 1..Len(sel) |-> buf[sel[Len(sel) + 1 - k]]]

\* lines 88-91: clip_frames.append(self.buffer[i]) for each selected i
CollectFrom(buf, tss, trigger_time, duration) ==
    LET sel == Selected(tss, trigger_time, duration)
    IN  [k \in 1..Len(sel) |-> buf[sel[k]]]

\* lines 78-93
GetClipFrames(buf, tss, trigger_time, duration) ==
    IF Len(tss) = 0 THEN <<>>
    ELSE CollectFrom(buf, tss, trigger_time, duration)

\* FrameBuffer.__init__(max_size), lines 67-70
Callers == 1..MaxCallers
IdleCaller == [pc |-> "idle", frame |-> 0, ts |-> 0]

BufferInit(n) ==
    /\ max_size = n
    /\ buffer = <<>>
    /\ timestamps = <<>>
    /\ added = <<>>
    /\ clip_frames = <<>>
    /\ last_op = [op |-> "init"]
    /\ lock_owner = 0
    /\ caller_pc = [c \in Callers |-> IdleCaller]

\* the two calls below are whole with blocks, run by one thread at a time

\* lines 72-76; the entry is the array allocated by frame.copy() at line 75,
\* named by its place in the insertion history
add_frame(ts) ==
    LET frame == Len(added) + 1
    IN  /\ buffer' = DequeAppend(buffer, frame, max_size)
        /\ timestamps' = DequeAppend(timestamps, ts, max_size)
        /\ added' = Append(added, <<frame, ts>>)
        /\ clip_frames' = <<>>
        /\ last_op' = [op |-> "add_frame", ts |-> ts]
        /\ UNCHANGED <<max_size, lock_owner, caller_pc>>

get_clip_frames(trigger_time, duration) ==
    /\ clip_frames' = GetClipFrames(buffer, timestamps, trigger_time, duration)
    /\ last_op' = [op |-> "get_clip_frames", trigger_time |-> trigger_time,
                   duration |-> duration]
    /\ UNCHANGED <<max_size, buffer, timestamps, added, lock_owner, caller_pc>>

LockFree_NoLock(owner) == TRUE

\* threading.Lock: the with statement of lines 74 and 80 enters only when no
\* thread holds the lock
LockFree(owner) == owner = 0

\* line 74: caller c enters the with block of add_frame(frame, ts)
AddFrameAcquire(c, ts) ==
    /\ caller_pc[c].pc = "idle"
    /\ LockFree(lock_owner)
    /\ lock_owner' = c
    /\ caller_pc' = [caller_pc EXCEPT ![c] =
                        [pc |-> "line75", frame |-> Len(added) + 1, ts |-> ts]]
    /\ added' = Append(added, <<Len(added) + 1, ts>>)
    /\ UNCHANGED <<max_size, buffer, timestamps, clip_frames, last_op>>

\* line 75: self.buffer.append(frame.copy())
AddFrameAppendFrame(c) ==
    /\ caller_pc[c].pc = "line75"
    /\ buffer' = DequeAppend(buffer, caller_pc[c].frame, max_size)
    /\ caller_pc' = [caller_pc EXCEPT ![c].pc = "line76"]
    /\ UNCHANGED <<max_size, timestamps, added, clip_frames, last_op,
                   lock_owner>>

\* line 76 and the end of the with block: self.timestamps.append(timestamp),
\* then the lock is released
AddFrameAppendTimestamp(c) ==
    /\ caller_pc[c].pc = "line76"
    /\ timestamps' = DequeAppend(timestamps, caller_pc[c].ts, max_size)
    /\ caller_pc' = [caller_pc EXCEPT ![c] = IdleCaller]
    /\ lock_owner' = 0
    /\ last_op' = [op |-> "add_frame", ts |-> caller_pc[c].ts]
    /\ UNCHANGED <<max_size, buffer, added, clip_frames>>

\* lines 80-93: caller c enters the with block of get_clip_frames, reads the
\* two deques and leaves it; seen is what it found there
GetClipFramesLocked(c, trigger_time, duration) ==
    /\ caller_pc[c].pc = "idle"
    /\ LockFree(lock_owner)
    /\ clip_frames' = GetClipFrames(buffer, timestamps, trigger_time, duration)
    /\ last_op' = [op |-> "get_clip_frames", trigger_time |-> trigger_time,
                   duration |-> duration,
                   seen |-> [buffer |-> buffer, timestamps |-> timestamps]]
    /\ UNCHANGED <<max_size, buffer, timestamps, added, lock_owner, caller_pc>>

----------------------------------------------------------------------------
(* Clip creation: manual_trigger_clip (enhanced_live_api.py 192-217) and   *)
(* CameraProcessor._process_shot_detection, create_clip_for_round,         *)
(* save_clip_video, save_clip_to_db, get_active_rounds                     *)

RoundIds == 1..MaxRounds
TaskIds == 1..MaxTriggers
ThreadIds == 1..MaxThreads

ActiveRounds == {r \in RoundIds : rounds[r] = "active"}

\* the orders in which cursor.to_list may return the documents of S
Listings(S) ==
    {sq \in [1..Cardinality(S) -> S] :
        \A i \in 1..Cardinality(S), j \in 1..Cardinality(S) :
            i # j => sq[i] # sq[j]}

\* a registry with no active round
NoRounds == [r \in RoundIds |-> "completed"]

IdleTask ==
    [pc |-> "idle", detail |-> "", img |-> <<>>, ts |-> 0, nframes |-> 0,
     active_rounds |-> <<>>, idx |-> 0, clip_data |-> <<>>,
     invoked_active |-> {}, queried_active |-> {},
     failed |-> FALSE, seen_frame |-> <<>>, outcomes |-> <<>>,
     cooldown_at_invoke |-> FALSE]

\* state after the lifespan start-up: the processor exists, no frame yet;
\* db.rounds holds the statuses rs
ClipsInit(rs) ==
    /\ camera_processor = "up"
    /\ rounds = rs
    /\ latest_frame = <<>>
    /\ latest_ts = 0
    /\ clips = <<>>
    /\ video_files = {}
    /\ poster_files = {}
    /\ next_uuid = 0
    /\ tasks = [t \in TaskIds |-> IdleTask]
    /\ clip_event = <<>>

ClipData_SharedId(clip_id, round_id, nframes, now) ==
    [id |-> 1,
     round_id |-> round_id,
     subject_id |-> <<"auto_detected_", round_id>>,
     hole_number |-> hole_number,
     camera_id |-> "lexington_hole_1",
     s3_key_master |-> <<"clips/", 1, ".mp4">>,
     hls_manifest |-> <<"/clips/", 1, ".mp4">>,
     poster_url |-> <<"/clips/", 1, "_poster.jpg">>,
     duration_sec |-> nframes \div video_fps,
     face_blur_applied |-> FALSE,
     published_at |-> now,
     auto_generated |-> TRUE,
     detection_method |-> "motion_detection"]

\* camera_processor.py 163-177
ClipData(clip_id, round_id, nframes, now) ==
    [id |-> clip_id,
     round_id |-> round_id,
     subject_id |-> <<"auto_detected_", round_id>>,
     hole_number |-> hole_number,
     camera_id |-> "lexington_hole_1",
     s3_key_master |-> <<"clips/", clip_id, ".mp4">>,
     hls_manifest |-> <<"/clips/", clip_id, ".mp4">>,
     poster_url |-> <<"/clips/", clip_id, "_poster.jpg">>,
     duration_sec |-> nframes \div video_fps,
     face_blur_applied |-> FALSE,
     published_at |-> now,
     auto_generated |-> TRUE,
     detection_method |-> "motion_detection"]

NextRound_AbortOnFailure(task) ==
    IF task.failed \/ task.idx + 1 > Len(task.active_rounds)
    THEN [task EXCEPT !.pc = "done", !.idx = @ + 1, !.clip_data = <<>>]
    ELSE [task EXCEPT !.pc = "loop", !.idx = @ + 1, !.clip_data = <<>>]

NextRound_StopAfterFirst(task) ==
    [task EXCEPT !.pc = "done", !.idx = @ + 1, !.clip_data = <<>>]

\* camera_processor.py 253: the for loop moves to the next round id, and the
\* coroutine returns after the last one
NextRound(task) ==
    IF task.idx + 1 > Len(task.active_rounds)
    THEN [task EXCEPT !.pc = "done", !.idx = @ + 1, !.clip_data = <<>>]
    ELSE [task EXCEPT !.pc = "loop", !.idx = @ + 1, !.clip_data = <<>>]

\* the clock advances while requests are being served
Tick ==
    /\ clock < StartTime + MaxTicks
    /\ clock' = clock + 1
    /\ UNCHANGED <<motion_counter, last_motion_time, detect_result,
                   fire_times, trace, bufVars, clipVars, readerVars,
                   serveVars, streamVars>>

\* RoundRegistry: another process makes a round active
ActivateRound(r) ==
    /\ rounds[r] # "active"
    /\ rounds' = [rounds EXCEPT ![r] = "active"]
    /\ UNCHANGED <<detVars, bufVars, readerVars, serveVars, streamVars,
                   camera_processor, latest_frame,
                   latest_ts, clips, video_files, poster_files, next_uuid,
                   tasks, clip_event>>

\* RoundRegistry: another process ends a round
CompleteRound(r) ==
    /\ rounds[r] = "active"
    /\ rounds' = [rounds EXCEPT ![r] = "completed"]
    /\ UNCHANGED <<detVars, bufVars, readerVars, serveVars, streamVars,
                   camera_processor, latest_frame,
                   latest_ts, clips, video_files, poster_files, next_uuid,
                   tasks, clip_event>>

\* enhanced_live_api.py 51-53: a successful fetch publishes the frame
PublishFrame ==
    /\ (IF Len(latest_frame) = 0 THEN 0 ELSE latest_frame[1]) < MaxPublish
    /\ latest_frame' = IF Len(latest_frame) = 0 THEN <<1>>
                       ELSE <<latest_frame[1] + 1>>
    /\ latest_ts' = clock
    /\ UNCHANGED <<detVars, bufVars, readerVars, serveVars, streamVars,
                   camera_processor, rounds, clips,
                   video_files, poster_files, next_uuid, tasks, clip_event>>

\* the server hands requests to the handlers between the lifespan start-up
\* and the beginning of its shutdown (enhanced_live_api.py 63-80)
Serving == camera_processor = "up" /\ stop_pc = "idle"

\* enhanced_live_api.py 76-79 with camera_processor.py 299-303 and 271-275:
\* the lifespan shutdown, which the server runs once the requests in flight
\* have ended, up to the join inside stop(); both threads find their loop
\* condition false afterwards
StopCameraProcessing ==
    /\ Serving
    /\ \A t \in TaskIds : tasks[t].pc \in {"idle", "done", "rejected"}
    /\ reader_running' = FALSE
    /\ is_running' = FALSE
    /\ stop_pc' = "shutdown"
    /\ stop_mark' = [added |-> Len(added), reads |-> Len(reads)]
    /\ UNCHANGED <<detVars, bufVars, clipVars, serveVars, reader_pc, backoff,
                   fetches, fetch_result, failure_sleeps, processing_thread,
                   stream_pc, exit_cause, start_calls, reads, fire_log>>

\* no request has been served
ServeInit ==
    /\ requests = <<>>
    /\ copies = 0

CopyFrame_Alias(array, n) == array

\* ndarray.copy() (enhanced_live_api.py 103, 118, 150, 200): a new array with
\* the pixels of the given one.  The arrays the snapshot reader decodes are
\* named 1, 2, ... in the order of the fetches; the n-th array allocated by
\* copy() is named -n.
CopyFrame(array, n) == 0 - n

ManualTrigger_RespectsCooldown(task, processor, frame, ts, active) ==
    IF processor = "none"
    THEN [task EXCEPT !.pc = "rejected",
                      !.detail = "Camera processing not active",
                      !.seen_frame = frame]
    ELSE IF Len(frame) = 0
    THEN [task EXCEPT !.pc = "rejected", !.detail = "No frame available",
                      !.seen_frame = frame]
    ELSE IF clock - last_motion_time <= cooldown_period
    THEN [task EXCEPT !.pc = "rejected", !.detail = "Detector in cooldown",
                      !.seen_frame = frame]
    ELSE [task EXCEPT !.pc = "query",
                      !.img = frame,
                      !.ts = ts,
                      !.nframes = manual_frame_count,
                      !.invoked_active = active,
                      !.seen_frame = frame]

ManualTrigger_NoFrameCheck(task, processor, frame, ts, active) ==
    IF processor = "none"
    THEN [task EXCEPT !.pc = "rejected",
                      !.detail = "Camera processing not active",
                      !.seen_frame = frame]
    ELSE [task EXCEPT !.pc = "query",
                      !.img = frame,
                      !.ts = ts,
                      !.nframes = manual_frame_count,
                      !.invoked_active = active,
                      !.seen_frame = frame]

\* enhanced_live_api.py 193-208: the two rejections, then the copy of the
\* latest frame repeated into the clip frames; frame is what lines 199-201
\* produced, <<>> for None, and seen_frame records it
ManualTrigger(task, processor, frame, ts, active) ==
    IF processor = "none"
    THEN [task EXCEPT !.pc = "rejected",
                      !.detail = "Camera processing not active",
                      !.seen_frame = frame]
    ELSE IF Len(frame) = 0
    THEN [task EXCEPT !.pc = "rejected", !.detail = "No frame available",
                      !.seen_frame = frame]
    ELSE [task EXCEPT !.pc = "query",
                      !.img = frame,
                      !.ts = ts,
                      !.nframes = manual_frame_count,
                      !.invoked_active = active,
                      !.seen_frame = frame]

\* enhanced_live_api.py 193-211, up to the first suspension of the
\* coroutine inside get_active_rounds (camera_processor.py 196-197)
TriggerInvoke(t) ==
    /\ Serving
    /\ tasks[t].pc = "idle"
    /\ LET img == IF latest_frame = <<>> THEN <<>>
                  ELSE <<CopyFrame(latest_frame[1], copies + 1)>>
       IN  /\ copies' = IF latest_frame = <<>> THEN copies ELSE copies + 1
           /\ tasks' = [tasks EXCEPT ![t] =
                 [ManualTrigger(@, camera_processor, img, latest_ts,
                                ActiveRounds)
                    EXCEPT !.cooldown_at_invoke =
                              clock - last_motion_time <= cooldown_period]]
    /\ UNCHANGED <<detVars, bufVars, readerVars, streamVars, requests,
                   camera_processor, rounds, latest_frame,
                   latest_ts, clips, video_files, poster_files, next_uuid,
                   clip_event>>

\* camera_processor.py 193-201 and 250-253: the query is answered (or
\* fails, which yields no rounds) and the loop over the round ids starts
QueryRounds(t) ==
    /\ tasks[t].pc = "query"
    /\ \E ok \in BOOLEAN :
         \E listing \in (IF ok THEN Listings(ActiveRounds) ELSE {<<>>}) :
            tasks' = [tasks EXCEPT ![t] =
                [@ EXCEPT !.pc = IF Len(listing) = 0 THEN "done" ELSE "loop",
                          !.active_rounds = listing,
                          !.idx = 1,
                          !.queried_active = ActiveRounds,
                          !.failed = ~ok]]
    /\ UNCHANGED <<detVars, bufVars, readerVars, serveVars, streamVars,
                   camera_processor, rounds, latest_frame,
                   latest_ts, clips, video_files, poster_files, next_uuid,
                   clip_event>>

SaveClipVideo_NoEmptyCheck(nframes, video_ok) ==
    IF video_ok THEN "clip_path" ELSE ""

\* save_clip_video, camera_processor.py 123-150: the empty string for an
\* empty frame list (lines 128-130) and for a failed write (148-150), the
\* path of the written file otherwise
SaveClipVideo(nframes, video_ok) ==
    IF nframes = 0 THEN ""
    ELSE IF video_ok THEN "clip_path" ELSE ""

\* camera_processor.py 247-250: _process_shot_detection called with a frame
\* list of nframes frames, up to the suspension inside get_active_rounds
ProcessShotDetection(t, nframes) ==
    /\ tasks[t].pc = "idle"
    /\ tasks' = [tasks EXCEPT ![t] =
                    [@ EXCEPT !.pc = "query",
                              !.nframes = nframes,
                              !.invoked_active = ActiveRounds]]
    /\ UNCHANGED <<detVars, bufVars, readerVars, serveVars, streamVars,
                   camera_processor, rounds, latest_frame,
                   latest_ts, clips, video_files, poster_files, next_uuid,
                   clip_event>>

\* camera_processor.py 152-180 (with save_clip_video, 123-150): a fresh id,
\* the video file, the metadata, up to the suspension in insert_one
CreateClipForRound(t) ==
    /\ tasks[t].pc = "loop"
    /\ LET task == tasks[t]
           clip_id == next_uuid + 1
           round_id == task.active_rounds[task.idx]
       IN  /\ next_uuid' = clip_id
           /\ \E video_ok \in BOOLEAN :
                IF SaveClipVideo(task.nframes, video_ok) # ""
                THEN /\ video_files' = video_files \cup {clip_id}
                     /\ tasks' = [tasks EXCEPT ![t] =
                           [@ EXCEPT !.pc = "insert",
                                     !.clip_data = <<ClipData(clip_id, round_id,
                                                        task.nframes, clock)>>]]
                ELSE /\ video_files' = video_files
                     /\ tasks' = [tasks EXCEPT ![t] =
                           NextRound([@ EXCEPT !.failed = TRUE,
                              !.outcomes = Append(@,
                                 [video |-> FALSE, insert |-> FALSE,
                                  poster |-> FALSE])])]
    /\ UNCHANGED <<detVars, bufVars, readerVars, serveVars, streamVars,
                   camera_processor, rounds, latest_frame,
                   latest_ts, clips, poster_files, clip_event>>

\* camera_processor.py 115-121 and 180-191: the insert takes effect or fails
\* (logged only), then the poster is written or fails (logged only)
InsertClip(t) ==
    /\ tasks[t].pc = "insert"
    /\ LET task == tasks[t]
           data == task.clip_data[1]
       IN  \E insert_ok \in BOOLEAN, poster_ok \in BOOLEAN :
              /\ clips' = IF insert_ok THEN Append(clips, data) ELSE clips
              /\ clip_event' = IF insert_ok THEN Append(clip_event, t)
                               ELSE clip_event
              /\ poster_files' = IF poster_ok THEN poster_files \cup {data.id}
                                 ELSE poster_files
              /\ tasks' = [tasks EXCEPT ![t] =
                    NextRound([@ EXCEPT !.failed =
                                  @ \/ ~insert_ok \/ ~poster_ok,
                               !.outcomes = Append(@,
                                  [video |-> TRUE, insert |-> insert_ok,
                                   poster |-> poster_ok])])]
    /\ UNCHANGED <<detVars, bufVars, readerVars, serveVars, streamVars,
                   camera_processor, rounds, latest_frame,
                   latest_ts, video_files, next_uuid>>

----------------------------------------------------------------------------
(* The snapshot reader thread: _snapshot_reader_loop                       *)
(* (enhanced_live_api.py 27-61; lexington_stream_proxy.py 33-82 is the     *)
(* same loop)                                                              *)

\* how one iteration's fetch can end: published, requests.get raising,
\* raise_for_status raising, cv2.imdecode returning None
FetchOutcomes == {"ok", "request_failed", "bad_status", "undecodable"}

NextBackoff_NoCap(b) == b * backoff_factor

\* line 61: min(20.0, backoff * 2.0)
NextBackoff(b) == Min(backoff_cap, b * backoff_factor)

Publish_BeforeDecodeCheck(outcome, frame, ts, img, now) ==
    IF outcome = "ok" THEN [frame |-> <<img>>, ts |-> now]
    ELSE IF outcome = "undecodable" THEN [frame |-> <<>>, ts |-> now]
    ELSE [frame |-> frame, ts |-> ts]

\* lines 32-53: the two globals after the try block; they are assigned, both
\* under the lock, only when no statement before line 51 raised
Publish(outcome, frame, ts, img, now) ==
    IF outcome = "ok" THEN [frame |-> <<img>>, ts |-> now]
    ELSE [frame |-> frame, ts |-> ts]

ReaderAfter_FatalDecode(outcome) ==
    IF outcome = "undecodable" THEN "done" ELSE "loop"

\* lines 56-61: after the sleep of the try block, or after the except clause,
\* which catches every Exception, control is back at the while
ReaderAfter(outcome) == "loop"

\* lines 22-30: the thread is started by the lifespan start-up
ReaderInit ==
    /\ reader_running = TRUE
    /\ reader_pc = "loop"
    /\ backoff = backoff_initial
    /\ fetches = 0
    /\ fetch_result = "none"
    /\ failure_sleeps = <<>>

\* lines 32-61: one iteration of the loop, with its sleep.  The integer clock
\* is the whole seconds of time.time(): the sleep of SNAPSHOT_INTERVAL
\* (half a second) moves it by 0 or 1.
ReaderFetch(outcome, dt) ==
    /\ reader_pc = "loop"
    /\ reader_running
    /\ fetches < MaxFetches
    /\ fetches' = fetches + 1
    /\ fetch_result' = outcome
    /\ reader_pc' = ReaderAfter(outcome)
    /\ LET p == Publish(outcome, latest_frame, latest_ts, fetches + 1, clock)
       IN  /\ latest_frame' = p.frame
           /\ latest_ts' = p.ts
    /\ IF outcome = "ok"
       THEN /\ backoff' = backoff_initial
            /\ failure_sleeps' = <<>>
            /\ clock' = clock + dt
       ELSE /\ backoff' = NextBackoff(backoff)
            /\ failure_sleeps' = Append(failure_sleeps, backoff)
            /\ clock' = clock + backoff
    /\ UNCHANGED <<motion_counter, last_motion_time, detect_result,
                   fire_times, trace, bufVars, streamVars, serveVars,
                   reader_running, camera_processor, rounds, clips, video_files,
                   poster_files, next_uuid, tasks, clip_event>>

\* line 32: the loop condition is false after the shutdown
ReaderExit ==
    /\ reader_pc = "loop"
    /\ ~reader_running
    /\ reader_pc' = "done"
    /\ UNCHANGED <<detVars, bufVars, clipVars, streamVars, serveVars,
                   reader_running, backoff, fetches, fetch_result,
                   failure_sleeps>>

----------------------------------------------------------------------------
(* The ingestion thread: CameraProcessor.process_stream                    *)
(* (camera_processor.py 203-245)                                           *)

\* asyncio.create_task: the coroutine is scheduled on the running event loop
\* of the calling thread, and RuntimeError is raised when there is none
create_task(running_loop) ==
    IF running_loop THEN "scheduled" ELSE "RuntimeError"

\* camera_processor.py 265-267: process_stream is the target of a plain
\* threading.Thread, in which no event loop runs
stream_thread_has_loop == FALSE

\* enhanced_live_api.py 86-87 and 94: "ok" is has_frame, read under _lock
HealthOk(frame) == frame # <<>>

\* enhanced_live_api.py 90-91 (and 160): the status the API reports
HealthCameraProcessing(processor, running) ==
    IF processor = "up" THEN running ELSE FALSE

\* camera_processor.py 259-267, called by the lifespan start-up: is_running
\* is set and the first thread is about to open the stream
StreamInit ==
    /\ is_running = TRUE
    /\ processing_thread = 1
    /\ stream_pc = [th \in ThreadIds |-> IF th = 1 THEN "open" ELSE "unstarted"]
    /\ exit_cause = [th \in ThreadIds |-> ""]
    /\ stop_pc = "idle"
    /\ stop_mark = [added |-> 0, reads |-> 0]
    /\ start_calls = 1
    /\ reads = <<>>
    /\ fire_log = <<>>

\* the threads that have been started and have not returned
AliveThreads == {th \in ThreadIds : stream_pc[th] \in {"open", "loop", "body"}}

LoopCondition_Ignored(running) == TRUE

\* line 215: while self.is_running
LoopCondition(running) == running

\* Thread.join(timeout=5), line 275: returns when the thread has ended or
\* when the timeout has expired
JoinReturns(alive, timed_out) == ~alive \/ timed_out

\* lines 206-213: the stream opens, or process_stream returns
OpenStream(th, opened) ==
    /\ stream_pc[th] = "open"
    /\ stream_pc' = [stream_pc EXCEPT ![th] = IF opened THEN "loop" ELSE "done"]
    /\ exit_cause' = [exit_cause EXCEPT ![th] =
                         IF opened THEN "" ELSE "open_failed"]
    /\ UNCHANGED <<detVars, bufVars, clipVars, readerVars, serveVars, is_running,
                   processing_thread, stop_pc, stop_mark, start_calls, reads,
                   fire_log>>

\* line 215: the loop condition is true and an iteration starts
StreamEnter(th) ==
    /\ stream_pc[th] = "loop"
    /\ LoopCondition(is_running)
    /\ stream_pc' = [stream_pc EXCEPT ![th] = "body"]
    /\ UNCHANGED <<detVars, bufVars, clipVars, readerVars, serveVars, is_running,
                   processing_thread, exit_cause, stop_pc, stop_mark,
                   start_calls, reads, fire_log>>

\* line 215: the loop condition is false and process_stream returns
StreamExit(th) ==
    /\ stream_pc[th] = "loop"
    /\ ~LoopCondition(is_running)
    /\ stream_pc' = [stream_pc EXCEPT ![th] = "done"]
    /\ exit_cause' = [exit_cause EXCEPT ![th] = "stopped"]
    /\ UNCHANGED <<detVars, bufVars, clipVars, readerVars, serveVars, is_running,
                   processing_thread, stop_pc, stop_mark, start_calls, reads,
                   fire_log>>

AfterRead_ProcessAnyway(ret) == "process"

\* lines 216-220: a read that returned ret false is logged, slept on and
\* retried (continue); any other goes on to the rest of the body
AfterRead(ret) == IF ~ret THEN "retry" ELSE "process"

\* lines 216-220: cap.read() fails; the loop sleeps one second and goes on
StreamReadFailed(th) ==
    /\ stream_pc[th] = "body"
    /\ AfterRead(FALSE) = "retry"
    /\ Len(reads) < MaxReads
    /\ clock + read_retry_sleep <= StartTime + MaxTicks
    /\ reads' = Append(reads, FALSE)
    /\ clock' = clock + read_retry_sleep
    /\ stream_pc' = [stream_pc EXCEPT ![th] = "loop"]
    /\ UNCHANGED <<motion_counter, last_motion_time, detect_result,
                   fire_times, trace, bufVars, clipVars, readerVars, serveVars,
                   is_running, processing_thread, exit_cause, stop_pc,
                   stop_mark, start_calls, fire_log>>

\* the call of line 236 and what follows it: the coroutine is scheduled and
\* the iteration goes on to its sleep, or the exception leaves the loop
HandleFire(window, running_loop) ==
    IF Len(window) = 0 THEN "continue"
    ELSE IF create_task(running_loop) = "RuntimeError" THEN "raise"
    ELSE "continue"

\* lines 216-245: the rest of an iteration on a frame of motion area
\* total_area: the frame is buffered, the detector classifies it, and on a
\* fire the window is extracted and handed to asyncio.create_task; an
\* exception leaves the loop through the handler of line 241.  The sleep of
\* 33 ms moves the integer clock by 0 or 1.
StreamFrameWithin(th, ret, total_area, dt, horizon) ==
    /\ stream_pc[th] = "body"
    /\ AfterRead(ret) = "process"
    /\ Len(reads) < MaxReads
    /\ clock + dt <= StartTime + horizon
    /\ LET current_time == clock
           frame == Len(added) + 1
           buf == DequeAppend(buffer, frame, max_size)
           tss == DequeAppend(timestamps, current_time, max_size)
           r == DetectStep(motion_counter, last_motion_time, total_area,
                           current_time)
           window == GetClipFrames(buf, tss, current_time, clip_duration)
           raised == r.fired /\ HandleFire(window, stream_thread_has_loop) = "raise"
       IN  /\ reads' = Append(reads, ret)
           /\ buffer' = buf
           /\ timestamps' = tss
           /\ added' = Append(added, <<frame, current_time>>)
           /\ motion_counter' = r.counter
           /\ last_motion_time' = r.last
           /\ detect_result' = r.fired
           /\ fire_times' = IF r.fired THEN Append(fire_times, current_time)
                            ELSE fire_times
           /\ clip_frames' = IF r.fired THEN window ELSE <<>>
           /\ last_op' = IF r.fired
                         THEN [op |-> "get_clip_frames",
                               trigger_time |-> current_time,
                               duration |-> clip_duration]
                         ELSE [op |-> "add_frame", ts |-> current_time]
           /\ fire_log' = IF r.fired
                          THEN Append(fire_log,
                                 [time |-> current_time,
                                  thread |-> th,
                                  active |-> ActiveRounds,
                                  task |-> IF Len(window) > 0
                                           THEN create_task(stream_thread_has_loop)
                                           ELSE "none",
                                  nframes |-> Len(window),
                                  outcome |-> HandleFire(window,
                                                 stream_thread_has_loop)])
                          ELSE fire_log
           /\ stream_pc' = [stream_pc EXCEPT ![th] =
                               IF raised THEN "done" ELSE "loop"]
           /\ exit_cause' = [exit_cause EXCEPT ![th] =
                               IF raised THEN "exception" ELSE ""]
           /\ clock' = IF raised THEN clock ELSE clock + dt
    /\ UNCHANGED <<trace, max_size, lock_owner, caller_pc, clipVars,
                   readerVars, serveVars, is_running,
                   processing_thread, stop_pc, stop_mark, start_calls>>

\* an iteration of the loop within the clock range of the serving runs
StreamFrame(th, total_area, dt) ==
    StreamFrameWithin(th, TRUE, total_area, dt, MaxTicks)

\* lines 232-239 alone, on a window of n frames returned by get_clip_frames:
\* an empty window skips the branch of line 234 and the iteration goes on to
\* its sleep; a non-empty one is handed to asyncio.create_task
FireBranch(th, n) ==
    /\ stream_pc[th] = "body"
    /\ Len(fire_log) < MaxFires
    /\ LET window == [i \in 1..n |-> i]
           outcome == HandleFire(window, stream_thread_has_loop)
       IN  /\ fire_log' = Append(fire_log,
                               [time |-> clock,
                                thread |-> th,
                                active |-> ActiveRounds,
                                task |-> IF Len(window) > 0
                                         THEN create_task(stream_thread_has_loop)
                                         ELSE "none",
                                nframes |-> Len(window),
                                outcome |-> outcome])
           /\ stream_pc' = [stream_pc EXCEPT ![th] =
                               IF outcome = "raise" THEN "done" ELSE "loop"]
           /\ exit_cause' = [exit_cause EXCEPT ![th] =
                               IF outcome = "raise" THEN "exception" ELSE ""]
    /\ UNCHANGED <<detVars, bufVars, clipVars, readerVars, serveVars, is_running,
                   processing_thread, stop_pc, stop_mark, start_calls, reads>>

\* CameraProcessor.start, lines 259-269: nothing happens while is_running is
\* set; otherwise the flag is set and a new thread runs process_stream
Start ==
    /\ stop_pc = "idle"
    /\ start_calls < MaxStarts
    /\ start_calls' = start_calls + 1
    /\ IF is_running
       THEN UNCHANGED <<is_running, processing_thread, stream_pc>>
       ELSE \E th \in ThreadIds :
               /\ stream_pc[th] = "unstarted"
               /\ \A o \in ThreadIds : o < th => stream_pc[o] # "unstarted"
               /\ is_running' = TRUE
               /\ processing_thread' = th
               /\ stream_pc' = [stream_pc EXCEPT ![th] = "open"]
    /\ UNCHANGED <<detVars, bufVars, clipVars, readerVars, serveVars, exit_cause,
                   stop_pc, stop_mark, reads, fire_log>>

\* CameraProcessor.stop, lines 271-275, up to the join: the flag is cleared
Stop ==
    /\ stop_pc = "idle"
    /\ is_running' = FALSE
    /\ stop_pc' = "joining"
    /\ stop_mark' = [added |-> Len(added), reads |-> Len(reads)]
    /\ UNCHANGED <<detVars, bufVars, clipVars, readerVars, serveVars, processing_thread,
                   stream_pc, exit_cause, start_calls, reads, fire_log>>

\* lines 274-276, and camera_processor.py 305 when the call came from
\* stop_camera_processing: the join returns and so does stop()
StopJoin(timed_out) ==
    /\ stop_pc \in {"joining", "shutdown"}
    /\ JoinReturns(processing_thread \in AliveThreads, timed_out)
    /\ stop_pc' = "idle"
    /\ camera_processor' = IF stop_pc = "shutdown" THEN "none"
                           ELSE camera_processor
    /\ UNCHANGED <<detVars, bufVars, readerVars, serveVars, rounds, latest_frame,
                   latest_ts, clips, video_files, poster_files, next_uuid,
                   tasks, clip_event, is_running, processing_thread,
                   stream_pc, exit_cause, stop_mark, start_calls, reads,
                   fire_log>>

----------------------------------------------------------------------------
(* The request handlers that read the latest frame: frame, the generator   *)
(* of mjpeg, analyze_demo (enhanced_live_api.py 101-175)                   *)

\* enhanced_live_api.py 102-103, 117-118, 148-150: under _lock, the latest
\* frame is copied and (in analyze_demo) _latest_ts is read
ReadLatest(kind, n) ==
    [kind |-> kind,
     src |-> latest_frame,
     img |-> IF latest_frame = <<>> THEN <<>>
             ELSE <<CopyFrame(latest_frame[1], n)>>,
     ts |-> IF kind = "analyze" THEN latest_ts ELSE 0,
     frame_lock |-> "_lock"]

\* lines 101-110: GET /frame
Frame ==
    /\ Serving
    /\ Len(requests) < MaxRequests
    /\ LET r == ReadLatest("frame", copies + 1)
       IN  /\ copies' = IF r.img = <<>> THEN copies ELSE copies + 1
           /\ requests' = Append(requests,
                 r @@
                 [status |-> IF r.img = <<>> THEN 503 ELSE 200,
                  detector |-> <<>>, detector_lock |-> "", writers |-> {}])
    /\ UNCHANGED <<detVars, bufVars, clipVars, readerVars, streamVars>>

\* lines 116-132: one iteration of the generator of GET /stream.mjpg
Mjpeg ==
    /\ Serving
    /\ Len(requests) < MaxRequests
    /\ LET r == ReadLatest("mjpeg", copies + 1)
       IN  /\ copies' = IF r.img = <<>> THEN copies ELSE copies + 1
           /\ requests' = Append(requests,
                 r @@
                 [status |-> IF r.img = <<>> THEN 0 ELSE 200,
                  detector |-> <<>>, detector_lock |-> "", writers |-> {}])
    /\ UNCHANGED <<detVars, bufVars, clipVars, readerVars, streamVars>>

\* lines 146-175: GET /analyze.  With a frame present the handler goes on to
\* read is_running and the detector's last_motion_time and motion_counter
\* (158-162), after the with block of line 148 has been left: no lock is
\* held, and writers are the threads inside process_stream at that moment
AnalyzeDemo ==
    /\ Serving
    /\ Len(requests) < MaxRequests
    /\ LET r == ReadLatest("analyze", copies + 1)
       IN  /\ copies' = IF r.img = <<>> THEN copies ELSE copies + 1
           /\ requests' = Append(requests,
                 r @@
                 [status |-> 200,
                  detector |-> IF r.img = <<>> THEN <<>>
                               ELSE <<is_running, last_motion_time,
                                      motion_counter>>,
                  detector_lock |-> IF r.img = <<>> THEN "" ELSE "none",
                  writers |-> IF r.img = <<>> THEN {} ELSE AliveThreads])
    /\ UNCHANGED <<detVars, bufVars, clipVars, readerVars, streamVars>>

InitClips ==
    /\ DetectorInit
    /\ BufferInit(default_max_size)
    /\ \E rs \in [RoundIds -> {"active", "completed"}] : ClipsInit(rs)
    /\ ReaderInit
    /\ StreamInit
    /\ ServeInit
NextClips ==
    \/ Tick
    \/ \E r \in RoundIds : ActivateRound(r)
    \/ \E r \in RoundIds : CompleteRound(r)
    \/ PublishFrame
    \/ StopCameraProcessing
    \/ \E timed_out \in BOOLEAN : StopJoin(timed_out)
    \/ \E t \in TaskIds : TriggerInvoke(t)
    \/ \E t \in TaskIds : QueryRounds(t)
    \/ \E t \in TaskIds : CreateClipForRound(t)
    \/ \E t \in TaskIds : InsertClip(t)
SpecClips == InitClips /\ [][NextClips]_vars

----------------------------------------------------------------------------
(* Specification of the detector under an arbitrary frame sequence and a    *)
(* non-decreasing clock                                                    *)

DetectorCall ==
    /\ \E a \in Areas, dt \in ClockSteps : detect_motion(a, dt)
    /\ UNCHANGED <<trace, bufVars, clipVars, readerVars, serveVars, streamVars>>

InitDetector == DetectorInit /\ BufferInit(default_max_size) /\ ClipsInit(NoRounds) /\ ReaderInit /\ StreamInit /\ ServeInit
NextDetector == DetectorCall
SpecDetector == InitDetector /\ [][NextDetector]_vars

(* Specification of the detector with the calls recorded *)

ScenarioCall ==
    /\ Len(trace) < MaxCalls
    /\ \E a \in Areas, dt \in ScenarioSteps :
          /\ detect_motion(a, dt)
          /\ trace' = Append(trace, <<a, detect_result'>>)
    /\ UNCHANGED <<bufVars, clipVars, readerVars, serveVars, streamVars>>

NextScenario == ScenarioCall
SpecScenario == InitDetector /\ [][NextScenario]_vars

(* Specification of the FrameBuffer under arbitrary add_frame and          *)
(* get_clip_frames calls: any timestamps, in any order                      *)

AddFrameCall ==
    /\ Len(added) < MaxAdds
    /\ \E ts \in 0..MaxTs : add_frame(ts)
    /\ UNCHANGED <<detVars, clipVars, readerVars, serveVars, streamVars>>

GetClipFramesCall ==
    /\ \E t \in 0..MaxTs, d \in 0..MaxDur : get_clip_frames(t, d)
    /\ UNCHANGED <<detVars, clipVars, readerVars, serveVars, streamVars>>

InitBuffer == DetectorInit /\ ClipsInit(NoRounds) /\ ReaderInit /\ StreamInit /\ ServeInit /\ \E n \in 1..MaxCap : BufferInit(n)
NextBuffer == AddFrameCall \/ GetClipFramesCall
SpecBuffer == InitBuffer /\ [][NextBuffer]_vars

(* Specification of the 300-frame scenario: the default buffer filled at   *)
(* the loop's 33 ms spacing, then one window of clip_duration seconds       *)

ScenarioT0 == StartTime * 1000
ScenarioDuration == clip_duration * 1000
MiddleFrame == default_max_size \div 2
TriggerFrames == {1, MiddleFrame, default_max_size}

AddSpacedFrame ==
    /\ Len(added) < default_max_size
    /\ add_frame(ScenarioT0 + frame_sleep_ms * Len(added))
    /\ UNCHANGED <<detVars, clipVars, readerVars, serveVars, streamVars>>

WindowAtFrame ==
    /\ Len(added) = default_max_size
    /\ last_op.op = "add_frame"
    /\ \E k \in TriggerFrames : get_clip_frames(timestamps[k], ScenarioDuration)
    /\ UNCHANGED <<detVars, clipVars, readerVars, serveVars, streamVars>>

InitSpaced == DetectorInit /\ BufferInit(default_max_size) /\ ClipsInit(NoRounds) /\ ReaderInit /\ StreamInit /\ ServeInit
NextSpaced == AddSpacedFrame \/ WindowAtFrame
SpecSpaced == InitSpaced /\ [][NextSpaced]_vars

----------------------------------------------------------------------------
(* Specification of the snapshot reader: fetches that succeed or fail, and *)
(* the shutdown                                                            *)

InitReader == DetectorInit /\ BufferInit(default_max_size) /\ ClipsInit(NoRounds) /\ ReaderInit /\ StreamInit /\ ServeInit
NextReader ==
    \/ \E outcome \in FetchOutcomes, dt \in {0, 1} : ReaderFetch(outcome, dt)
    \/ ReaderExit
    \/ StopCameraProcessing
    \/ \E timed_out \in BOOLEAN : StopJoin(timed_out)
SpecReader == InitReader /\ [][NextReader]_vars

----------------------------------------------------------------------------
(* Specification of the ingestion thread: the stream opens or not, frames  *)
(* are read and classified, rounds come and go, the application shuts down *)

StreamStep ==
    \/ \E th \in ThreadIds, opened \in BOOLEAN : OpenStream(th, opened)
    \/ \E th \in ThreadIds : StreamEnter(th)
    \/ \E th \in ThreadIds : StreamReadFailed(th)
    \/ \E th \in ThreadIds, a \in Areas, dt \in {0, 1} : StreamFrame(th, a, dt)
    \/ \E th \in ThreadIds : StreamExit(th)

InitStream == DetectorInit /\ BufferInit(default_max_size) /\ ClipsInit(NoRounds) /\ ReaderInit /\ StreamInit /\ ServeInit
NextStream ==
    \/ StreamStep
    \/ \E r \in RoundIds : ActivateRound(r)
    \/ \E r \in RoundIds : CompleteRound(r)
    \/ StopCameraProcessing
    \/ \E timed_out \in BOOLEAN : StopJoin(timed_out)
SpecStream == InitStream /\ [][NextStream]_vars

\* the operating system keeps running the ingestion thread: a step of
\* process_stream that stays possible is eventually taken
FairSpecStream == SpecStream /\ WF_vars(StreamStep)

----------------------------------------------------------------------------
(* Specification of the two ingestion paths side by side: the snapshot     *)
(* reader and the ingestion thread, with the shutdown                      *)

NextIngest ==
    \/ \E outcome \in FetchOutcomes, dt \in {0, 1} : ReaderFetch(outcome, dt)
    \/ ReaderExit
    \/ StreamStep
    \/ StopCameraProcessing
    \/ \E timed_out \in BOOLEAN : StopJoin(timed_out)
SpecIngest == InitStream /\ [][NextIngest]_vars

----------------------------------------------------------------------------
(* Specification of the handlers that read the latest frame, next to the   *)
(* snapshot reader that publishes it                                       *)

NextFrames ==
    \/ \E outcome \in FetchOutcomes, dt \in {0, 1} : ReaderFetch(outcome, dt)
    \/ Frame
    \/ Mjpeg
    \/ AnalyzeDemo
    \/ \E t \in TaskIds : TriggerInvoke(t)
SpecFrames == InitStream /\ [][NextFrames]_vars

----------------------------------------------------------------------------
(* Specification of the request-serving context next to the ingestion      *)
(* thread: frames are published, /analyze and /trigger-clip are served     *)
(* while process_stream runs; one round is active                          *)

OneRound == [r \in RoundIds |-> IF r = 1 THEN "active" ELSE "completed"]

InitServe == DetectorInit /\ BufferInit(default_max_size) /\ ClipsInit(OneRound) /\ ReaderInit /\ StreamInit /\ ServeInit
NextServe ==
    \/ StreamStep
    \/ PublishFrame
    \/ AnalyzeDemo
    \/ \E t \in TaskIds : TriggerInvoke(t)
    \/ \E t \in TaskIds : QueryRounds(t)
    \/ \E t \in TaskIds : CreateClipForRound(t)
    \/ \E t \in TaskIds : InsertClip(t)
    \/ StopCameraProcessing
    \/ \E timed_out \in BOOLEAN : StopJoin(timed_out)
SpecServe == InitServe /\ [][NextServe]_vars

----------------------------------------------------------------------------
(* Specification of one CameraProcessor whose start() and stop() are       *)
(* called in any order by one caller, from the state after the first       *)
(* start()                                                                 *)

NextLifecycle ==
    \/ StreamStep
    \/ Start
    \/ Stop
    \/ \E timed_out \in BOOLEAN : StopJoin(timed_out)
SpecLifecycle == InitStream /\ [][NextLifecycle]_vars

----------------------------------------------------------------------------
(* Claims about ShotDetector *)

\* C1: under a non-decreasing clock any two detect_motion calls that return
\* True are more than cooldown_period apart.
C1_FiresMoreThanCooldownApart ==
    \A i \in 1..Len(fire_times), j \in 1..Len(fire_times) :
        i < j => fire_times[j] - fire_times[i] > cooldown_period

\* C1 witness: the detector has fired twice.
C1_FiredTwice == Len(fire_times) >= 2 /\ detect_result

ScenarioAreas == <<6000, 6000, 100, 6000, 6000, 6000>>

TraceAreas(n) == [i \in 1..n |-> trace[i][1]]
TraceFired(n) == [i \in 1..n |-> trace[i][2]]

RunsScenario ==
    /\ Len(trace) >= Len(ScenarioAreas)
    /\ TraceAreas(Len(ScenarioAreas)) = ScenarioAreas

\* C2 (as amended): a fresh detector fed the areas
\* [6000, 6000, 100, 6000, 6000, 6000] returns True exactly once, on the 5th
\* frame: the dip at frame 3 only decays the counter from 2 to 1.
C2_ScenarioFiresOnFifth ==
    RunsScenario =>
        TraceFired(Len(ScenarioAreas)) = <<FALSE, FALSE, FALSE, FALSE, TRUE, FALSE>>

\* C2 (as claimed): the same run returns True exactly once, on the 6th frame.
C2_ScenarioFiresOnSixth ==
    RunsScenario =>
        TraceFired(Len(ScenarioAreas)) = <<FALSE, FALSE, FALSE, FALSE, FALSE, TRUE>>

\* C2 witness: the scenario has been run to its 6th frame and fired on the 5th.
C2_ScenarioRun == RunsScenario /\ trace[5][2]

\* C3: from counter 0 outside cooldown, (qualifying, qualifying, below) never
\* returns True, and (qualifying, qualifying, qualifying) returns True on the
\* third call only.
C3_BoundaryOfThree ==
    Len(trace) >= consecutive_frames =>
        LET q(i) == AboveThreshold(trace[i][1])
        IN  /\ (q(1) /\ q(2) /\ ~q(3)) => TraceFired(3) = <<FALSE, FALSE, FALSE>>
            /\ (q(1) /\ q(2) /\ q(3)) => TraceFired(3) = <<FALSE, FALSE, TRUE>>

\* C3 witness: three qualifying frames in a row, the third call returned True.
C3_ThirdFired ==
    /\ Len(trace) = 3
    /\ \A i \in 1..3 : AboveThreshold(trace[i][1])
    /\ trace[3][2]

----------------------------------------------------------------------------
(* Claims about FrameBuffer *)

IsGet == last_op.op = "get_clip_frames"
Range(sq) == {sq[i] : i \in 1..Len(sq)}
TsOf(frame) == added[frame][2]

\* C4: get_clip_frames(t, d) returns exactly the buffered frames whose
\* timestamp lies in [t - d/2, t + d/2], both bounds inclusive: none outside,
\* none inside left out, none repeated or fabricated, never more than are
\* buffered, and the empty list when the buffer is empty.
C4_WindowIsExact ==
    IsGet =>
        LET t == last_op.trigger_time
            d == last_op.duration
            inside == {i \in 1..Len(buffer) :
                          /\ 2 * t - d <= 2 * timestamps[i]
                          /\ 2 * timestamps[i] <= 2 * t + d}
        IN  /\ Range(clip_frames) = {buffer[i] : i \in inside}
            /\ Len(clip_frames) = Cardinality(inside)
            /\ Len(clip_frames) <= Len(buffer)
            /\ (buffer = <<>> => clip_frames = <<>>)

\* C4 witness: a window that takes some buffered frames and leaves some out,
\* one taken frame lying exactly on the upper bound.
C4_PartialWindow ==
    /\ IsGet
    /\ clip_frames # <<>>
    /\ Len(clip_frames) < Len(buffer)
    /\ \E i \in 1..Len(buffer) :
          /\ 2 * timestamps[i] = 2 * last_op.trigger_time + last_op.duration
          /\ buffer[i] \in Range(clip_frames)

\* C5 (as claimed): whatever timestamps were passed to add_frame, the frames
\* returned by get_clip_frames are in strictly ascending timestamp order.
C5_StrictlyAscendingAlways ==
    IsGet =>
        \A k \in 1..Len(clip_frames), l \in 1..Len(clip_frames) :
            k < l => TsOf(clip_frames[k]) < TsOf(clip_frames[l])

AddedStrictlyIncreasing ==
    \A i \in 1..Len(added), j \in 1..Len(added) :
        i < j => added[i][2] < added[j][2]

\* C5 (as amended): the frames returned by get_clip_frames are in insertion
\* order; they are in strictly ascending timestamp order whenever the
\* timestamps passed to add_frame were strictly increasing.
C5_InsertionOrder ==
    IsGet =>
        /\ \A k \in 1..Len(clip_frames), l \in 1..Len(clip_frames) :
              k < l => clip_frames[k] < clip_frames[l]
        /\ AddedStrictlyIncreasing =>
              \A k \in 1..Len(clip_frames), l \in 1..Len(clip_frames) :
                  k < l => TsOf(clip_frames[k]) < TsOf(clip_frames[l])

\* C5 witness: a window of two or more frames over increasing timestamps.
C5_TwoFramesReturned ==
    IsGet /\ Len(clip_frames) >= 2 /\ AddedStrictlyIncreasing

Kept == IF Len(added) > max_size THEN max_size ELSE Len(added)

\* C6: the buffer never holds more than max_size frames; it holds exactly the
\* max_size most recently added frames, with their timestamps, in insertion
\* order; no get_clip_frames call returns an evicted frame.
C6_FifoEviction ==
    /\ Len(buffer) <= max_size
    /\ Len(buffer) = Kept
    /\ Len(timestamps) = Kept
    /\ \A i \in 1..Kept :
          /\ buffer[i] = added[Len(added) - Kept + i][1]
          /\ timestamps[i] = added[Len(added) - Kept + i][2]
    /\ IsGet => \A f \in Range(clip_frames) : f > Len(added) - max_size

\* C6 witness: frames have been evicted and a later window, wide enough to
\* cover an evicted frame's timestamp, returned frames.
C6_WindowAfterEviction ==
    /\ Len(added) > max_size
    /\ IsGet
    /\ clip_frames # <<>>
    /\ \E f \in 1..(Len(added) - max_size) :
          /\ 2 * last_op.trigger_time - last_op.duration <= 2 * TsOf(f)
          /\ 2 * TsOf(f) <= 2 * last_op.trigger_time + last_op.duration

AtMiddleOfFullBuffer ==
    /\ IsGet
    /\ Len(added) = default_max_size
    /\ last_op.trigger_time = timestamps[MiddleFrame]
    /\ last_op.duration = ScenarioDuration

\* C7: with capacity 300 and 300 frames added at 33 ms spacing, the 10 s
\* window around the 150th frame's timestamp returns all 300 frames.
C7_MiddleWindowReturnsAll ==
    AtMiddleOfFullBuffer =>
        clip_frames = buffer /\ Len(clip_frames) = default_max_size

\* C7 witness: the window around the 150th of 300 frames has been taken.
C7_MiddleWindowTaken == AtMiddleOfFullBuffer /\ clip_frames # <<>>

----------------------------------------------------------------------------
(* Claims about clip creation *)

ClipsOf(t) == {i \in 1..Len(clips) : clip_event[i] = t}

CleanRun(t) == tasks[t].pc = "done" /\ ~tasks[t].failed

\* C8: one run of _process_shot_detection that finds N active rounds and
\* meets no persistence failure writes exactly N Clip records, exactly one
\* per active round, and all records have pairwise distinct ids and storage
\* locators.
C8_OneClipPerActiveRound ==
    /\ \A t \in TaskIds :
          CleanRun(t) =>
              /\ Cardinality(ClipsOf(t)) = Cardinality(tasks[t].queried_active)
              /\ \A r \in tasks[t].queried_active :
                    Cardinality({i \in ClipsOf(t) : clips[i].round_id = r}) = 1
              /\ \A i \in ClipsOf(t) :
                    clips[i].round_id \in tasks[t].queried_active
    /\ \A i \in 1..Len(clips), j \in 1..Len(clips) :
          i # j => /\ clips[i].id # clips[j].id
                   /\ clips[i].s3_key_master # clips[j].s3_key_master
                   /\ clips[i].hls_manifest # clips[j].hls_manifest
                   /\ clips[i].poster_url # clips[j].poster_url

\* C8 witness: a run with two active rounds and no failure has ended and
\* wrote two records.
C8_TwoRoundsTwoClips ==
    \E t \in TaskIds :
        /\ CleanRun(t)
        /\ Cardinality(tasks[t].queried_active) = 2
        /\ Cardinality(ClipsOf(t)) = 2

\* C9 (as claimed): all Clip records written by one detection event carry the
\* same timestamp, whatever the time at which each record is written.
C9_SameTimestampPerEvent ==
    \A i \in 1..Len(clips), j \in 1..Len(clips) :
        clip_event[i] = clip_event[j] =>
            clips[i].published_at = clips[j].published_at

\* C10 (as claimed): every round that receives a clip from an event was
\* active at the moment the event was triggered.
C10_OnlyRoundsActiveAtTrigger ==
    \A i \in 1..Len(clips) :
        clips[i].round_id \in tasks[clip_event[i]].invoked_active

\* C14: when the processing of one detection event has ended, every round id
\* the registry returned was attempted, and every round whose own video
\* write and record insert succeeded has its Clip record, whatever happened
\* to the other rounds of the event.
C14_RoundFailuresIsolated ==
    \A t \in TaskIds :
        tasks[t].pc = "done" =>
            /\ Len(tasks[t].outcomes) = Len(tasks[t].active_rounds)
            /\ \A k \in 1..Len(tasks[t].outcomes) :
                  (tasks[t].outcomes[k].video /\ tasks[t].outcomes[k].insert) =>
                      \E i \in ClipsOf(t) :
                          clips[i].round_id = tasks[t].active_rounds[k]

\* the first round of an event failed and the second one received its clip
C14_SecondRoundSurvivesFirstFailure ==
    \E t \in TaskIds :
        /\ tasks[t].pc = "done"
        /\ Len(tasks[t].active_rounds) = 2
        /\ ~ (tasks[t].outcomes[1].video /\ tasks[t].outcomes[1].insert)
        /\ tasks[t].outcomes[2].video /\ tasks[t].outcomes[2].insert
        /\ \E i \in ClipsOf(t) : clips[i].round_id = tasks[t].active_rounds[2]

\* nothing has been written to the clip store or the clip collection
StoreUntouched ==
    /\ clips = <<>>
    /\ video_files = {}
    /\ poster_files = {}
    /\ next_uuid = 0

\* C15: a manual trigger that finds no frame published is rejected with
\* "No frame available", never queries the round registry and writes no clip.
C15_NoFrameRejected ==
    /\ \A t \in TaskIds :
          (tasks[t].pc # "idle" /\ tasks[t].seen_frame = <<>>) =>
              /\ tasks[t].pc = "rejected"
              /\ tasks[t].detail = "No frame available"
              /\ tasks[t].active_rounds = <<>>
              /\ tasks[t].queried_active = {}
              /\ tasks[t].outcomes = <<>>
              /\ ClipsOf(t) = {}
    /\ (\A t \in TaskIds : tasks[t].pc \in {"idle", "rejected"}) =>
          StoreUntouched

\* a trigger was invoked before any frame was published, with a round active
C15_TriggeredWithoutFrame ==
    \E t \in TaskIds :
        /\ tasks[t].pc = "rejected"
        /\ tasks[t].seen_frame = <<>>
        /\ ActiveRounds # {}

\* C16 (as claimed): a Clip record exists only if both its video file and its
\* poster file are in the clip store.
C16_ArtifactsBeforeRecord ==
    \A i \in 1..Len(clips) :
        /\ clips[i].id \in video_files
        /\ clips[i].id \in poster_files

\* C17 (as claimed): every Clip record created through the manual trigger
\* carries the detection method "manual".
C17_ManualClipsTaggedManual ==
    \A i \in 1..Len(clips) :
        clip_event[i] \in TaskIds => clips[i].detection_method = "manual"

\* the rounds that were active at the most recent fire of the ingestion loop
LastFireActive ==
    IF fire_log = <<>> THEN {} ELSE fire_log[Len(fire_log)].active

\* C11 (as claimed): every fire of the ingestion loop made while rounds are
\* active is eventually followed by a Clip record for each of those rounds.
C11_FireLeadsToClips ==
    (LastFireActive # {}) ~>
        (\A r \in LastFireActive :
            \E i \in 1..Len(clips) : clips[i].round_id = r)

\* C12 (as claimed): after a fire the ingestion loop goes on reading frames
\* for as long as is_running is true.
C12_FireKeepsIngesting ==
    \A k \in 1..Len(fire_log) :
        is_running => stream_pc[fire_log[k].thread] # "done"

\* C13 (as claimed): once the ingestion loop has ended on its own (the stream
\* did not open, or an exception reached the loop's handler) the reported
\* camera-processing status is false.
C13_TerminatedReportsNotRunning ==
    \A th \in ThreadIds :
        (stream_pc[th] = "done" /\ exit_cause[th] \in {"open_failed", "exception"})
            => ~HealthCameraProcessing(camera_processor, is_running)

\* C19: the reader's backoff stays within [1, 20] seconds; the k-th failure
\* in a row sleeps min(20, 2^(k-1)) seconds, that is 1, 2, 4, 8, 16, 20,
\* 20, ...; after a success the backoff is 1 again.
C19_BackoffSequence ==
    /\ backoff >= 1
    /\ backoff <= 20
    /\ \A k \in 1..Len(failure_sleeps) :
          failure_sleeps[k] = Min(20, 2 ^ (k - 1))
    /\ backoff = Min(20, 2 ^ Len(failure_sleeps))
    /\ fetch_result = "ok" => (backoff = 1 /\ failure_sleeps = <<>>)

\* seven failures in a row have slept 1, 2, 4, 8, 16, 20, 20
C19_SevenFailures == failure_sleeps = <<1, 2, 4, 8, 16, 20, 20>>

\* C20: an iteration whose fetch fails leaves _latest_frame and _latest_ts as
\* they were; either of them changes only in an iteration whose fetch
\* succeeds, which assigns the new frame and the time of publication
\* together.
C20_PublishOnlyOnSuccess ==
    [][ /\ (fetches' # fetches /\ fetch_result' # "ok") =>
              (latest_frame' = latest_frame /\ latest_ts' = latest_ts)
        /\ (latest_frame' # latest_frame \/ latest_ts' # latest_ts) =>
              /\ fetches' = fetches + 1
              /\ fetch_result' = "ok"
              /\ latest_frame' = <<fetches'>>
              /\ latest_ts' = clock ]_vars

\* a fetch has failed after a frame was published, and the frame is still
\* the published one
C20_FailureAfterPublication ==
    /\ fetch_result \in FetchOutcomes \ {"ok"}
    /\ latest_frame # <<>>
    /\ latest_frame[1] < fetches

----------------------------------------------------------------------------
(* Further claims about ShotDetector *)

\* the motion area passed to the call that has just been recorded
LastArea == trace[Len(trace)][1]

\* C29: after every detect_motion call 0 <= motion_counter <
\* consecutive_frames; the call returns True exactly when the area is above
\* the threshold outside the cooldown and the increment reaches
\* consecutive_frames; a call that returns True leaves the counter at 0 and
\* last_motion_time at the current time, any other call leaves
\* last_motion_time alone.
C29_CounterBelowRequired ==
    [][ /\ motion_counter' >= 0
        /\ motion_counter' < consecutive_frames
        /\ detect_result' <=>
              /\ LastArea' > motion_threshold
              /\ clock' - last_motion_time > cooldown_period
              /\ motion_counter + 1 = consecutive_frames
        /\ detect_result' => (motion_counter' = 0 /\ last_motion_time' = clock')
        /\ ~detect_result' => last_motion_time' = last_motion_time ]_vars

\* a call has fired from a counter one short of the required count
C29_FiredAndReset ==
    /\ Len(trace) >= consecutive_frames
    /\ detect_result
    /\ motion_counter = 0
    /\ last_motion_time = clock

\* C30: on every detect_motion call the counter is incremented (and reset to
\* 0 when the increment reaches the required count) if the area exceeds 5000
\* and more than 10 s have passed since the last fire; in every other case,
\* area at or below the threshold or area above it during the cooldown, it
\* becomes max(0, counter - 1).
C30_CounterFollowsStep4 ==
    [][ IF LastArea' > 5000 /\ clock' - last_motion_time > 10
        THEN motion_counter' = (IF motion_counter + 1 >= 3 THEN 0
                                ELSE motion_counter + 1)
        ELSE motion_counter' = Max(0, motion_counter - 1) ]_vars

\* the last call had an area above the threshold during the cooldown
C30_AboveThresholdInCooldown ==
    /\ trace # <<>>
    /\ LastArea > 5000
    /\ fire_times # <<>>
    /\ ~detect_result
    /\ clock - last_motion_time <= 10

----------------------------------------------------------------------------
(* Further claims about FrameBuffer *)

\* C25 (as claimed): the frames get_clip_frames returns are copies: none of
\* them is an array held by the buffer.
C25_ReturnedFramesAreCopies ==
    IsGet => \A k \in 1..Len(clip_frames) : clip_frames[k] \notin Range(buffer)

----------------------------------------------------------------------------
(* Claims about start() and stop() *)

\* C22: while is_running is false no thread passes the loop condition, so a
\* thread at the top of its loop can only return; from the moment stop()
\* cleared the flag at most one more read was made and at most one more
\* frame was appended; and a stop() waiting in its join can always return,
\* whether or not the thread has ended.
C22_StopEndsLoop ==
    [][ /\ \A th \in ThreadIds :
              (~is_running /\ stream_pc[th] = "loop") =>
                  stream_pc'[th] \in {"loop", "done"}
        /\ ~is_running' =>
              /\ Len(added') <= stop_mark'.added + 1
              /\ Len(reads') <= stop_mark'.reads + 1
        /\ stop_pc # "idle" => ENABLED (\E timed_out \in BOOLEAN : StopJoin(timed_out))
      ]_vars

\* stop() has returned, the iteration that was in progress appended its
\* frame, and the thread has ended at the loop condition
C22_StoppedAfterOneMoreFrame ==
    /\ camera_processor = "none"
    /\ stream_pc[1] = "done"
    /\ exit_cause[1] = "stopped"
    /\ Len(added) = stop_mark.added + 1

\* C23 (as claimed): at most one thread of a CameraProcessor is running
\* process_stream at any time, whatever the order of the start() and stop()
\* calls.
C23_AtMostOneIngestionThread == Cardinality(AliveThreads) <= 1

----------------------------------------------------------------------------
(* Claims about transient ingestion failures *)

\* C21: a fetch of the snapshot reader that fails leaves the thread in its
\* loop, whatever the number of failures before it, and the thread ends only
\* once the running flag is cleared; a fetch that succeeds publishes its
\* frame; an iteration of process_stream whose cap.read() fails goes back to
\* the loop condition instead of ending the thread.
C21_TransientFailuresNotFatal ==
    [][ /\ (fetches' # fetches /\ fetch_result' # "ok") => reader_pc' = "loop"
        /\ reader_pc' = "done" => ~reader_running'
        /\ (fetches' # fetches /\ fetch_result' = "ok") =>
              (latest_frame' = <<fetches'>> /\ latest_ts' = clock)
        /\ \A th \in ThreadIds :
              (stream_pc[th] = "body" /\ reads' # reads /\ added' = added) =>
                  (stream_pc'[th] = "loop" /\ exit_cause'[th] = "")
      ]_vars

\* both loops are still going after failures: the reader has failed three
\* times in a row and process_stream has had a failed read
C21_BothLoopsSurviveFailures ==
    /\ Len(failure_sleeps) >= 3
    /\ reader_running
    /\ reader_pc = "loop"
    /\ Len(reads) > Len(added)
    /\ is_running
    /\ stream_pc[1] \in {"loop", "body"}

----------------------------------------------------------------------------
(* Claims about the request handlers *)

\* C24 (as claimed): a handler that reads the detector's state while a
\* thread is inside process_stream holds a lock while it reads.
C24_DetectorReadUnderLock ==
    \A i \in 1..Len(requests) :
        (requests[i].detector # <<>> /\ requests[i].writers # {}) =>
            requests[i].detector_lock # "none"

\* C26: every handler that found a frame holds an array of its own, taken
\* under _lock: it is not the array it was copied from, it is not the array
\* stored in _latest_frame now or after any later publication, and no two
\* handlers hold the same array.
C26_ReadersHoldCopies ==
    /\ \A i \in 1..Len(requests) :
          /\ requests[i].frame_lock = "_lock"
          /\ requests[i].img = <<>> <=> requests[i].src = <<>>
          /\ requests[i].img # <<>> =>
                /\ requests[i].img # requests[i].src
                /\ requests[i].img # latest_frame
                /\ \A j \in 1..Len(requests) :
                      j # i => requests[j].img # requests[i].img
                /\ \A t \in TaskIds : tasks[t].img # requests[i].img
    /\ \A t \in TaskIds :
          /\ tasks[t].pc \in {"idle", "rejected"} <=> tasks[t].img = <<>>
          /\ tasks[t].img # <<>> => tasks[t].img # latest_frame

\* two handlers and a manual trigger hold copies, and a later frame has
\* been published since the first copy was taken
C26_CopiesOutlivePublication ==
    /\ Len(requests) = 2
    /\ requests[1].img # <<>>
    /\ requests[2].img # <<>>
    /\ requests[1].src # latest_frame
    /\ \E t \in TaskIds : tasks[t].img # <<>>

\* C28: the steps of a /trigger-clip request leave motion_counter,
\* last_motion_time and the FrameBuffer as they are, and a request that
\* finds a frame is accepted whether or not the detector is in its cooldown.
C28_ManualTriggerOutsideDetector ==
    [][ /\ tasks' # tasks =>
              UNCHANGED <<motion_counter, last_motion_time, fire_times,
                          buffer, timestamps, added>>
        /\ \A t \in TaskIds :
              (tasks[t].pc = "idle" /\ tasks'[t].pc # "idle"
                 /\ latest_frame # <<>>) => tasks'[t].pc = "query"
      ]_vars

\* a request made during the cooldown has written its clip, and the detector
\* is as the fire left it
C28_ClipDuringCooldown ==
    \E t \in TaskIds :
        /\ tasks[t].cooldown_at_invoke
        /\ tasks[t].pc = "done"
        /\ ClipsOf(t) # {}
        /\ Len(fire_times) = 1
        /\ last_motion_time = fire_times[1]
        /\ motion_counter = 0

----------------------------------------------------------------------------
(* Specification of the clip path on frame windows of any length, the empty *)
(* one included: the fire branch of process_stream and                      *)
(* _process_shot_detection are called with windows of 0..MaxWindow frames   *)

NextWindow ==
    \/ \E th \in ThreadIds, opened \in BOOLEAN : OpenStream(th, opened)
    \/ \E th \in ThreadIds : StreamEnter(th)
    \/ \E th \in ThreadIds, n \in 0..MaxWindow : FireBranch(th, n)
    \/ \E t \in TaskIds, n \in 0..MaxWindow : ProcessShotDetection(t, n)
    \/ \E t \in TaskIds : QueryRounds(t)
    \/ \E t \in TaskIds : CreateClipForRound(t)
    \/ \E t \in TaskIds : InsertClip(t)
SpecWindow == InitClips /\ [][NextWindow]_vars

\* C27: an empty frame window creates no clip.  The fire branch schedules
\* nothing for it and the ingestion loop goes on (no exception leaves it);
\* a clip task holding an empty frame list never reaches the insert, every
\* round it attempts ends with no video, no record and no poster, and while
\* only such tasks have run the store holds no file and no record.
C27_EmptyWindowNoClip ==
    /\ \A k \in 1..Len(fire_log) :
          fire_log[k].nframes = 0 =>
             /\ fire_log[k].task = "none"
             /\ fire_log[k].outcome = "continue"
    /\ (fire_log # <<>> /\ fire_log[Len(fire_log)].nframes = 0) =>
          /\ stream_pc[fire_log[Len(fire_log)].thread] \in {"loop", "body"}
          /\ exit_cause[fire_log[Len(fire_log)].thread] # "exception"
    /\ \A t \in TaskIds :
          (tasks[t].nframes = 0 /\ tasks[t].pc \notin {"idle", "rejected"}) =>
             /\ tasks[t].pc # "insert"
             /\ tasks[t].clip_data = <<>>
             /\ \A k \in 1..Len(tasks[t].outcomes) :
                   tasks[t].outcomes[k] =
                      [video |-> FALSE, insert |-> FALSE, poster |-> FALSE]
             /\ \A k \in 1..Len(clips) :
                   clips[k].round_id \notin
                      {tasks[t].active_rounds[i] :
                          i \in 1..Len(tasks[t].active_rounds)}
                   \/ \E o \in TaskIds : o # t /\ tasks[o].nframes > 0
    /\ (\A t \in TaskIds : tasks[t].nframes = 0) =>
          /\ video_files = {}
          /\ poster_files = {}
          /\ clips = <<>>

\* an empty frame list went through every active round and the task
\* returned, and the ingestion loop is back in its body after an empty window
C27_EmptyWindowSkipped ==
    /\ \E t \in TaskIds :
          /\ tasks[t].nframes = 0
          /\ tasks[t].pc = "done"
          /\ Len(tasks[t].active_rounds) = MaxRounds
          /\ Len(tasks[t].outcomes) = MaxRounds
          /\ next_uuid = MaxRounds
    /\ fire_log # <<>>
    /\ fire_log[Len(fire_log)].nframes = 0
    /\ stream_pc[fire_log[Len(fire_log)].thread] = "body"

----------------------------------------------------------------------------
(* The status surface of the detector *)

LastFire == IF fire_times = <<>> THEN 0 ELSE fire_times[Len(fire_times)]

\* C31: last_motion_time is the clock value of the most recent detect_motion
\* call that returned True, 0 before the first one: a call that returns True
\* sets it to the time of the call, a call that returns False leaves it
\* alone, and it never decreases.
C31_LastFireTimestamp ==
    [][ /\ last_motion_time = LastFire
        /\ last_motion_time' = LastFire'
        /\ detect_result' => last_motion_time' = clock'
        /\ ~detect_result' => last_motion_time' = last_motion_time
        /\ last_motion_time' >= last_motion_time ]_vars

\* a call returned False after a fire, with the cooldown of that fire over
C31_SilentCallAfterFire ==
    /\ fire_times # <<>>
    /\ ~detect_result
    /\ clock - last_motion_time > cooldown_period
    /\ motion_counter > 0
    /\ last_motion_time = fire_times[Len(fire_times)]

InCooldown == clock - last_motion_time <= cooldown_period

\* C32: with a clock that never goes back, motion_counter is 0 whenever the
\* detector is in its cooldown, and a call raises the counter only when
\* more than cooldown_period has passed since the last fire.
C32_CounterZeroInCooldown ==
    [][ /\ InCooldown => motion_counter = 0
        /\ InCooldown' => motion_counter' = 0
        /\ motion_counter' > motion_counter =>
              clock' - last_motion_time > cooldown_period ]_vars

\* calls were made during a cooldown, the last one on its closing instant
C32_CalledAtEndOfCooldown ==
    /\ fire_times # <<>>
    /\ clock - last_motion_time = cooldown_period
    /\ ~detect_result
    /\ motion_counter = 0

----------------------------------------------------------------------------
(* Specification of the detector under sustained motion: every frame has a *)
(* motion area above the threshold and the clock advances between any two  *)
(* calls, as it does between two iterations of process_stream; each call   *)
(* is recorded with its result and its time                                *)

SustainedCall ==
    /\ Len(trace) < MaxSustained
    /\ \E a \in {x \in Areas : AboveThreshold(x)}, dt \in SustainedSteps :
          /\ detect_motion(a, dt)
          /\ trace' = Append(trace, <<a, detect_result', clock'>>)
    /\ UNCHANGED <<bufVars, clipVars, readerVars, serveVars, streamVars>>

NextSustained == SustainedCall
SpecSustained == InitDetector /\ [][NextSustained]_vars

\* the last call before call k that returned True, 0 if there is none, and
\* the time of that call (0, the initial last_motion_time, if there is none)
PrevFire(k) ==
    LET S == {j \in 1..(k - 1) : trace[j][2]}
    IN  IF S = {} THEN 0 ELSE CHOOSE j \in S : \A i \in S : i <= j
PrevFireTime(k) == IF PrevFire(k) = 0 THEN 0 ELSE trace[PrevFire(k)][3]

\* the calls after that fire, up to call k, made once its cooldown was over
AfterCooldown(k) ==
    {i \in (PrevFire(k) + 1)..k :
        trace[i][3] - PrevFireTime(k) > cooldown_period}

\* C33: under sustained motion and an advancing clock the detector fires
\* again after each cooldown: a call returns True exactly when it is the
\* consecutive_frames-th call made since the cooldown of the previous fire
\* elapsed, so the silence after a fire never outlasts the cooldown by more
\* than consecutive_frames calls.
C33_FiresAgainAfterEachCooldown ==
    \A k \in 1..Len(trace) :
        /\ trace[k][2] <=> Cardinality(AfterCooldown(k)) = consecutive_frames
        /\ Cardinality(AfterCooldown(k)) <= consecutive_frames

\* the detector fired, stayed silent through calls made during the cooldown,
\* and fired again
C33_FiredAgainAfterCooldown ==
    /\ Len(fire_times) = 2
    /\ detect_result
    /\ Len(trace) > 2 * consecutive_frames

----------------------------------------------------------------------------
(* Specification of the detection path of process_stream when an iteration *)
(* may take long (cap.read() blocks on the network stream): the clock      *)
(* moves by up to clip_duration / 2 + 1 seconds between two frames         *)

NextDetection ==
    \/ \E th \in ThreadIds, opened \in BOOLEAN : OpenStream(th, opened)
    \/ \E th \in ThreadIds : StreamEnter(th)
    \/ \E th \in ThreadIds : StreamReadFailed(th)
    \/ \E th \in ThreadIds, ret \in BOOLEAN, a \in Areas, dt \in StallSteps :
          StreamFrameWithin(th, ret, a, dt, MaxStreamClock)
SpecDetection == InitStream /\ [][NextDetection]_vars

\* C34: every frame the loop classifies is in the buffer, under the
\* timestamp of its iteration, when it is classified, and the window of a
\* fire is taken at that timestamp: the window holds the frame that caused
\* the fire, so it is not empty, and each of its frames has a timestamp
\* between the trigger minus half the clip duration and the trigger.
C34_WindowHoldsFiringFrame ==
    /\ Len(added) > 0 =>
          /\ buffer[Len(buffer)] = added[Len(added)][1]
          /\ timestamps[Len(timestamps)] = added[Len(added)][2]
    /\ \A k \in 1..Len(fire_log) : fire_log[k].nframes > 0
    /\ detect_result =>
          /\ last_op.op = "get_clip_frames"
          /\ last_op.trigger_time = added[Len(added)][2]
          /\ last_op.trigger_time = last_motion_time
          /\ clip_frames # <<>>
          /\ added[Len(added)][1] \in Range(clip_frames)
          /\ \A f \in Range(clip_frames) :
                /\ 2 * last_op.trigger_time - clip_duration <= 2 * TsOf(f)
                /\ TsOf(f) <= last_op.trigger_time

\* a fire whose window leaves out a buffered frame older than half the clip
\* duration and holds the firing frame with an earlier one
C34_OldFrameOutsideWindow ==
    /\ detect_result
    /\ Len(clip_frames) >= 2
    /\ Len(clip_frames) < Len(buffer)
    /\ TsOf(clip_frames[1]) < last_op.trigger_time

----------------------------------------------------------------------------
(* Restart of a processor whose loop has died *)

\* C35 (as claimed): when the ingestion loop has terminated on its own, by
\* an exception in its body or by failing to open the stream, a call of
\* start() launches a new ingestion thread, with no stop() needed first.
C35_StartRestartsDeadLoop ==
    [][ ( /\ start_calls' = start_calls + 1
          /\ stream_pc[processing_thread] = "done"
          /\ exit_cause[processing_thread] \in {"open_failed", "exception"} )
        => ( /\ processing_thread' # processing_thread
             /\ stream_pc'[processing_thread'] = "open" ) ]_vars

----------------------------------------------------------------------------
(* Artifacts and records in the clip store *)

StoredIds == {clips[k].id : k \in 1..Len(clips)}

\* C36 (as claimed): once create_clip_for_round has completed (no task is
\* between the video write and the end of that call), a video file or a
\* poster exists for a clip id only if a Clip record with that id was
\* stored: a failed insert leaves no orphan file.
C36_NoOrphanArtifacts ==
    (\A t \in TaskIds : tasks[t].pc # "insert") =>
        /\ video_files \subseteq StoredIds
        /\ poster_files \subseteq StoredIds

----------------------------------------------------------------------------
(* The failed read *)

\* C37: an iteration whose cap.read() failed leaves the FrameBuffer and the
\* detector as they were: no frame is added, detect_motion is not called
\* (its last result, the counter and last_motion_time are unchanged), no
\* fire is recorded, no clip task starts, and the thread is back at the
\* loop condition.
C37_FailedReadTouchesNothing ==
    [][ (Len(reads') = Len(reads) + 1 /\ ~reads'[Len(reads')]) =>
           /\ UNCHANGED <<buffer, timestamps, added>>
           /\ UNCHANGED <<motion_counter, last_motion_time, detect_result,
                          fire_times>>
           /\ UNCHANGED <<fire_log, tasks, clips, video_files>>
           /\ \A th \in ThreadIds :
                 stream_pc'[th] # stream_pc[th] => stream_pc'[th] = "loop" ]_vars

\* a read failed with the detector one frame short of a fire, and the
\* counter is still there
C37_FailedReadMidCount ==
    /\ reads # <<>>
    /\ ~reads[Len(reads)]
    /\ motion_counter = consecutive_frames - 1
    /\ Len(buffer) = consecutive_frames - 1

----------------------------------------------------------------------------
(* The published frame over time *)

\* C38: the published frame is monotone.  Once set, _latest_frame is never
\* None again; _latest_ts never decreases; in every state the lock lets a
\* reader see, _latest_frame is None exactly when _latest_ts is 0; so the
\* ok of /health never goes from true back to false.
C38_LatestFrameMonotone ==
    [][ /\ latest_frame # <<>> => latest_frame' # <<>>
        /\ latest_ts' >= latest_ts
        /\ (latest_frame = <<>>) <=> (latest_ts = 0)
        /\ (latest_frame' = <<>>) <=> (latest_ts' = 0)
        /\ HealthOk(latest_frame) => HealthOk(latest_frame') ]_vars

\* two frames were published and every kind of failure came after them
C38_FailuresAfterSecondFrame ==
    /\ latest_frame # <<>>
    /\ latest_frame[1] >= 2
    /\ Len(failure_sleeps) >= 3
    /\ fetch_result = "undecodable"
    /\ HealthOk(latest_frame)

----------------------------------------------------------------------------
(* Specification of one FrameBuffer called by several threads: add_frame   *)
(* and get_clip_frames calls interleave statement by statement, each       *)
(* inside its with self.lock block                                         *)

LockedAdd ==
    /\ Len(added) < MaxAdds
    /\ \E c \in Callers, ts \in 0..MaxTs : AddFrameAcquire(c, ts)
    /\ UNCHANGED <<detVars, clipVars, readerVars, serveVars, streamVars>>

LockedAppendFrame ==
    /\ \E c \in Callers : AddFrameAppendFrame(c)
    /\ UNCHANGED <<detVars, clipVars, readerVars, serveVars, streamVars>>

LockedAppendTimestamp ==
    /\ \E c \in Callers : AddFrameAppendTimestamp(c)
    /\ UNCHANGED <<detVars, clipVars, readerVars, serveVars, streamVars>>

LockedGet ==
    /\ \E c \in Callers, t \in 0..MaxTs, d \in 0..MaxDur :
          GetClipFramesLocked(c, t, d)
    /\ UNCHANGED <<detVars, clipVars, readerVars, serveVars, streamVars>>

NextLocked == LockedAdd \/ LockedAppendFrame \/ LockedAppendTimestamp \/ LockedGet
SpecLocked == InitBuffer /\ [][NextLocked]_vars

\* the two deques have one length and entry i of each comes from one
\* add_frame call
Aligned(buf, tss) ==
    /\ Len(buf) = Len(tss)
    /\ \A i \in 1..Len(buf) : <<buf[i], tss[i]>> = added[buf[i]]

\* C39: whoever holds FrameBuffer.lock finds the frame deque and the
\* timestamp deque of one length with entry i of one belonging to entry i of
\* the other: when the lock is free, when a caller has just entered
\* add_frame, and in what every get_clip_frames call read, whatever the
\* interleaving of the callers and whether or not frames were evicted.
C39_DequesAlignedUnderLock ==
    /\ lock_owner = 0 => Aligned(buffer, timestamps)
    /\ \A c \in Callers :
          caller_pc[c].pc = "line75" => Aligned(buffer, timestamps)
    /\ (IsGet /\ "seen" \in DOMAIN last_op) =>
          Aligned(last_op.seen.buffer, last_op.seen.timestamps)
    /\ \A c \in Callers : caller_pc[c].pc # "idle" => lock_owner = c

\* after evictions, a get_clip_frames call read a full buffer and the second
\* caller is now in the middle of its add_frame, between the two appends,
\* where the deques disagree and only the holder of the lock can see them
C39_GetBetweenAddsAfterEviction ==
    /\ Len(added) > max_size + 1
    /\ IsGet
    /\ "seen" \in DOMAIN last_op
    /\ Len(last_op.seen.buffer) = max_size
    /\ lock_owner = MaxCallers
    /\ caller_pc[MaxCallers].pc = "line76"
    /\ Len(buffer) = Len(timestamps)
    /\ ~Aligned(buffer, timestamps)

====
